---- MODULE Spec2Model ----
(***************************************************************************)
(* tasg: a command-line task tracker whose tasks live in one JSON file.    *)
(*                                                                         *)
(* The model has two levels.  The Store level (Spec) calls the operations  *)
(* of `impl Store for JsonStore` (add, list, complete, delete, edit)       *)
(* directly, as the unit tests of store.rs do, and lets each file read and *)
(* file write succeed or fail.  The CLI level (SpecCLI) runs whole         *)
(* invocations of main(): ensure_tasks_file_exists, argument parsing, run; *)
(* SpecCLIIO adds the invocations in which one file operation fails.       *)
(* SpecRace runs two invocations at the same time, one file operation per  *)
(* step.                                                                   *)
(*                                                                         *)
(* The file is the only state that survives an operation.  Its content is  *)
(* kept in serialized form (a JSON array of objects, each object the       *)
(* tuple of the field values in declaration order), and load / save        *)
(* convert between that form and Task records.                             *)
(***************************************************************************)
EXTENDS Integers, Sequences, FiniteSets, TLC

VARIABLES
    file,     \* the tasks file on disk: absent, zero-length, or a JSON array
    clock,    \* the next reading of chrono::Local::now(); two readings are
              \* always separated by a write and a read of the file, so each
              \* reading is later than the one before (the wall clock being
              \* set back between two operations is not modelled)
    last,     \* the operation performed last and what it returned
    added,    \* the tasks added so far while nothing but add and list has run
    removed,  \* the ids a successful delete has removed so far
    procs     \* the invocations that run at the same time: for each process
              \* its position in main() and what it holds in memory

vars == <<file, clock, last, added, removed, procs>>

----------------------------------------------------------------------------
(* Bounds of the model *)

\* the clock readings available: each Task::new and each edit takes one, so
\* a run holds fewer than MaxClock adds and edits together, and the stored
\* sequence stays shorter than MaxClock
MaxClock == 4

\* ids passed to the Store operations
Ids == {1, 2}

\* ids given on the command line: every id an add can have assigned, and
\* one more that is never stored
CliIds == 1..MaxClock

\* characters stripped by str::trim
Whitespace == {" ", "\n"}

\* descriptions passed to the Store operations, which do not validate them
Descriptions == { <<" ">>, <<"a">> }

\* descriptions given on the command line: two blank ones, two usable ones
CliDescriptions == { <<>>, <<" ">>, <<"a">>, <<" ", "b">> }

\* lines typed at the confirmation prompt of nuke (<<>> is end of input)
NukeInputs == { <<>>, <<"\n">>, <<"y", "\n">>, <<"Y", "\n">>, <<"n", "\n">>,
                <<" ", "y", "\n">>, <<"y", "e", "s", "\n">> }

\* how a read of the file can end, and how std::fs::write can end:
\*   "fail_open"  the file could not be opened or created, nothing changed
\*   "fail_write" the file was created or truncated and writing then failed
ReadOutcomes == {"ok", "fail"}
WriteOutcomes == {"ok", "fail_open", "fail_write"}

----------------------------------------------------------------------------
(* The Task record and its serialized form *)

Task_new(id, description, now) ==
    [id |-> id, description |-> description,
     created_at |-> now, updated_at |-> now, completed |-> FALSE]

\* serde writes the fields of a Task in declaration order
to_json(t) == <<t.id, t.description, t.created_at, t.updated_at, t.completed>>

\* a reader that takes updated_at from the created_at field
from_json_one_timestamp(o) ==
    [id |-> o[1], description |-> o[2],
     created_at |-> o[3], updated_at |-> o[3], completed |-> o[5]]

from_json(o) ==
    [id |-> o[1], description |-> o[2],
     created_at |-> o[3], updated_at |-> o[4], completed |-> o[5]]

to_string(tasks) == [i \in 1..Len(tasks) |-> to_json(tasks[i])]

from_str(items) == [i \in 1..Len(items) |-> from_json(items[i])]

----------------------------------------------------------------------------
(* The file *)

Absent == [exists |-> FALSE, valid |-> FALSE, items |-> <<>>]

\* a file of zero bytes: it exists and is not a JSON document
ZeroLength == [exists |-> TRUE, valid |-> FALSE, items |-> <<>>]

FileOf(data) == [exists |-> TRUE, valid |-> TRUE, items |-> data]

\* the literal [] written by ensure_tasks_file_exists
EmptyArray == FileOf(<<>>)

\* std::fs::write(path, data): create or truncate, then write everything
fs_write(f, data, w) ==
    CASE w = "ok"         -> FileOf(data)
      [] w = "fail_open"  -> f
      [] w = "fail_write" -> ZeroLength

\* the tasks a file holds (none when it is absent or not a JSON array)
Stored(f) == IF f.exists /\ f.valid THEN from_str(f.items) ELSE <<>>

----------------------------------------------------------------------------
(* Results of operations *)

Ok(f, saved, out) ==
    [ret |-> "Ok", err_id |-> 0, saved |-> saved, out |-> out, file |-> f]

Err(kind, id, f, saved) ==
    [ret |-> kind, err_id |-> id, saved |-> saved, out |-> <<>>, file |-> f]

\* load taking a file it cannot parse for an empty one
load_lenient(f, r) ==
    IF f.exists
      THEN IF r = "fail" THEN [ret |-> "IoError", tasks |-> <<>>]
           ELSE [ret |-> "Ok", tasks |-> Stored(f)]
      ELSE [ret |-> "Ok", tasks |-> <<>>]

\* JsonStore::load
load(f, r) ==
    IF f.exists
      THEN IF r = "fail" THEN [ret |-> "IoError", tasks |-> <<>>]
           ELSE IF f.valid THEN [ret |-> "Ok", tasks |-> from_str(f.items)]
           ELSE [ret |-> "SerdeError", tasks |-> <<>>]
      ELSE [ret |-> "Ok", tasks |-> <<>>]

\* JsonStore::save
save(f, tasks, w) ==
    LET g == fs_write(f, to_string(tasks), w)
    IN  IF w = "ok" THEN Ok(g, TRUE, <<>>) ELSE Err("IoError", 0, g, TRUE)

----------------------------------------------------------------------------
(* impl Store for JsonStore *)

\* tasks.iter_mut().find(|t| t.id == id): the index of the first task with
\* that id, scanning from index i; 0 when there is none
RECURSIVE find(_, _, _)
find(tasks, id, i) ==
    IF i > Len(tasks) THEN 0
    ELSE IF tasks[i].id = id THEN i
    ELSE find(tasks, id, i + 1)

\* a removal of the first task with the id only
retain_first(tasks, id) ==
    LET i == find(tasks, id, 1)
    IN  IF i = 0 THEN tasks
        ELSE SubSeq(tasks, 1, i - 1) \o SubSeq(tasks, i + 1, Len(tasks))

\* tasks.retain(|task| task.id != id)
RECURSIVE retain(_, _)
retain(tasks, id) ==
    IF tasks = <<>> THEN <<>>
    ELSE IF Head(tasks).id # id
           THEN <<Head(tasks)>> \o retain(Tail(tasks), id)
           ELSE retain(Tail(tasks), id)

\* tasks.into_iter().filter(|t| !t.completed).collect()
RECURSIVE filter_incomplete(_)
filter_incomplete(tasks) ==
    IF tasks = <<>> THEN <<>>
    ELSE IF ~Head(tasks).completed
           THEN <<Head(tasks)>> \o filter_incomplete(Tail(tasks))
           ELSE filter_incomplete(Tail(tasks))

\* add with the new task put in front instead of pushed at the end
add_in_front(f, task, r, w) ==
    LET l == load(f, r)
    IN  IF l.ret # "Ok" THEN Err(l.ret, 0, f, FALSE)
        ELSE save(f, <<task>> \o l.tasks, w)

\* add refusing a task whose id is stored already
add_unique(f, task, r, w) ==
    LET l == load(f, r)
    IN  IF l.ret # "Ok" THEN Err(l.ret, 0, f, FALSE)
        ELSE IF \E i \in 1..Len(l.tasks) : l.tasks[i].id = task.id
          THEN Err("InvalidInput", 0, f, FALSE)
        ELSE save(f, Append(l.tasks, task), w)

\* JsonStore::add
add(f, task, r, w) ==
    LET l == load(f, r)
    IN  IF l.ret # "Ok" THEN Err(l.ret, 0, f, FALSE)
        ELSE save(f, Append(l.tasks, task), w)

\* list with the filter applied when `all` is set instead of when it is not
list_flag_swapped(f, all, r) ==
    LET l == load(f, r)
    IN  IF l.ret # "Ok" THEN Err(l.ret, 0, f, FALSE)
        ELSE Ok(f, FALSE, IF all THEN filter_incomplete(l.tasks) ELSE l.tasks)

\* JsonStore::list
list(f, all, r) ==
    LET l == load(f, r)
    IN  IF l.ret # "Ok" THEN Err(l.ret, 0, f, FALSE)
        ELSE Ok(f, FALSE, IF all THEN l.tasks ELSE filter_incomplete(l.tasks))

\* complete with the save done before the lookup is examined
complete_save_first(f, id, r, w) ==
    LET l == load(f, r)
        i == find(l.tasks, id, 1)
        s == save(f, IF i # 0 THEN [l.tasks EXCEPT ![i].completed = TRUE]
                     ELSE l.tasks, w)
    IN  IF l.ret # "Ok" THEN Err(l.ret, 0, f, FALSE)
        ELSE IF s.ret # "Ok" THEN s
        ELSE IF i # 0 THEN s
        ELSE Err("NotFound", id, s.file, TRUE)

\* complete that also moves updated_at forward
complete_refresh(f, id, r, w) ==
    LET l == load(f, r)
        i == find(l.tasks, id, 1)
    IN  IF l.ret # "Ok" THEN Err(l.ret, 0, f, FALSE)
        ELSE IF i # 0
          THEN save(f, [l.tasks EXCEPT ![i].completed = TRUE,
                                       ![i].updated_at = @ + 1], w)
          ELSE Err("NotFound", id, f, FALSE)

\* complete marking every task with the id, not the first one only
complete_every_match(f, id, r, w) ==
    LET l == load(f, r)
        i == find(l.tasks, id, 1)
    IN  IF l.ret # "Ok" THEN Err(l.ret, 0, f, FALSE)
        ELSE IF i # 0
          THEN save(f, [j \in 1..Len(l.tasks) |->
                          IF l.tasks[j].id = id
                            THEN [l.tasks[j] EXCEPT !.completed = TRUE]
                            ELSE l.tasks[j]], w)
          ELSE Err("NotFound", id, f, FALSE)

\* JsonStore::complete
complete(f, id, r, w) ==
    LET l == load(f, r)
        i == find(l.tasks, id, 1)
    IN  IF l.ret # "Ok" THEN Err(l.ret, 0, f, FALSE)
        ELSE IF i # 0
          THEN save(f, [l.tasks EXCEPT ![i].completed = TRUE], w)
          ELSE Err("NotFound", id, f, FALSE)

\* delete with the save done whether or not the sequence shrank
delete_save_anyway(f, id, r, w) ==
    LET l == load(f, r)
        initial_len == Len(l.tasks)
        kept == retain(l.tasks, id)
        s == save(f, kept, w)
    IN  IF l.ret # "Ok" THEN Err(l.ret, 0, f, FALSE)
        ELSE IF s.ret # "Ok" THEN s
        ELSE IF Len(kept) < initial_len THEN s
        ELSE Err("NotFound", id, s.file, TRUE)

\* JsonStore::delete
delete(f, id, r, w) ==
    LET l == load(f, r)
        initial_len == Len(l.tasks)
        kept == retain(l.tasks, id)
    IN  IF l.ret # "Ok" THEN Err(l.ret, 0, f, FALSE)
        ELSE IF Len(kept) < initial_len
          THEN save(f, kept, w)
          ELSE Err("NotFound", id, f, FALSE)

\* Option<String>: None, or Some(text)
None == [some |-> FALSE, text |-> <<>>]
Some(x) == [some |-> TRUE, text |-> x]
OptDescriptions == {None} \cup {Some(d) : d \in Descriptions}

\* edit with updated_at refreshed only when a description is supplied
edit_refresh_on_change(f, id, description, now, r, w) ==
    LET l == load(f, r)
        i == find(l.tasks, id, 1)
    IN  IF l.ret # "Ok" THEN Err(l.ret, 0, f, FALSE)
        ELSE IF i # 0
          THEN IF description.some
                 THEN save(f, [l.tasks EXCEPT ![i].description = description.text,
                                              ![i].updated_at = now], w)
                 ELSE save(f, l.tasks, w)
          ELSE Err("NotFound", id, f, FALSE)

\* edit that rewrites a file it could not parse as an empty array before
\* reporting the failure
edit_reset_corrupt(f, id, description, now, r, w) ==
    LET l == load(f, r)
        i == find(l.tasks, id, 1)
    IN  IF l.ret = "SerdeError" THEN Err(l.ret, 0, EmptyArray, FALSE)
        ELSE IF l.ret # "Ok" THEN Err(l.ret, 0, f, FALSE)
        ELSE IF i # 0
          THEN LET d == IF description.some THEN description.text
                        ELSE l.tasks[i].description
               IN  save(f, [l.tasks EXCEPT ![i].description = d,
                                           ![i].updated_at = now], w)
          ELSE Err("NotFound", id, f, FALSE)

\* edit with the save done before the lookup is examined
edit_save_first(f, id, description, now, r, w) ==
    LET l == load(f, r)
        i == find(l.tasks, id, 1)
        d == IF description.some THEN description.text
             ELSE l.tasks[i].description
        s == save(f, IF i # 0 THEN [l.tasks EXCEPT ![i].description = d,
                                                   ![i].updated_at = now]
                     ELSE l.tasks, w)
    IN  IF l.ret # "Ok" THEN Err(l.ret, 0, f, FALSE)
        ELSE IF s.ret # "Ok" THEN s
        ELSE IF i # 0 THEN s
        ELSE Err("NotFound", id, s.file, TRUE)

\* edit that also opens the task again
edit_reopen(f, id, description, now, r, w) ==
    LET l == load(f, r)
        i == find(l.tasks, id, 1)
    IN  IF l.ret # "Ok" THEN Err(l.ret, 0, f, FALSE)
        ELSE IF i # 0
          THEN LET d == IF description.some THEN description.text
                        ELSE l.tasks[i].description
               IN  save(f, [l.tasks EXCEPT ![i].description = d,
                                           ![i].updated_at = now,
                                           ![i].completed = FALSE], w)
          ELSE Err("NotFound", id, f, FALSE)

\* JsonStore::edit
edit(f, id, description, now, r, w) ==
    LET l == load(f, r)
        i == find(l.tasks, id, 1)
    IN  IF l.ret # "Ok" THEN Err(l.ret, 0, f, FALSE)
        ELSE IF i # 0
          THEN LET d == IF description.some THEN description.text
                        ELSE l.tasks[i].description
               IN  save(f, [l.tasks EXCEPT ![i].description = d,
                                           ![i].updated_at = now], w)
          ELSE Err("NotFound", id, f, FALSE)

----------------------------------------------------------------------------
(* The record of the last operation *)

\* a line on the error stream: a format string and the number put into it
Message(text, n) == [text |-> text, n |-> n]
NoMessage == Message("", 0)

Last(op, id, all, opt, res, exit) ==
    [op |-> op, id |-> id, all |-> all, some |-> opt.some, text |-> opt.text,
     ret |-> res.ret, err_id |-> res.err_id, saved |-> res.saved,
     out |-> res.out, exit |-> exit, msg |-> NoMessage]

NoOp == [op |-> "none", id |-> 0, all |-> FALSE, some |-> FALSE, text |-> <<>>,
         ret |-> "Ok", err_id |-> 0, saved |-> FALSE, out |-> <<>>, exit |-> 0,
         msg |-> NoMessage]

\* `added` once something other than a successful add or a list has run
Tainted == [known |-> FALSE, tasks |-> <<>>]
Known(tasks) == [known |-> TRUE, tasks |-> tasks]

\* the processes that can run the program at the same time, and the
\* invocations each of them makes one after the other
Procs == {"p", "q"}
Rounds == {1, 2}

\* a process that is not running the program
Idle ==
    [pc |-> "idle", round |-> 0,
     cmd |-> [name |-> "none", id |-> 0, all |-> FALSE, text |-> <<>>],
     task |-> Task_new(0, <<>>, 0), snap |-> <<>>, data |-> <<>>,
     ret |-> "Ok", saved |-> FALSE]

\* a store is constructed on a path where there is no file or an empty array
Init ==
    /\ file \in {Absent, EmptyArray}
    /\ clock = 1
    /\ last = NoOp
    /\ added = Known(<<>>)
    /\ removed = {}
    /\ procs = [p \in Procs |-> Idle]

----------------------------------------------------------------------------
(* Store level: the operations called directly *)

StoreAdd ==
    \E id \in Ids, d \in Descriptions, r \in ReadOutcomes, w \in WriteOutcomes :
        /\ clock < MaxClock
        /\ LET task == Task_new(id, d, clock)
               res == add(file, task, r, w)
           IN  /\ file' = res.file
               /\ last' = Last("add", id, FALSE, Some(d), res, 0)
               /\ added' = IF added.known /\ res.ret = "Ok"
                             THEN Known(Append(added.tasks, task))
                             ELSE Tainted
        /\ clock' = clock + 1
        /\ UNCHANGED <<removed, procs>>

StoreList ==
    \E all \in BOOLEAN, r \in ReadOutcomes :
        LET res == list(file, all, r)
        IN  /\ file' = res.file
            /\ last' = Last("list", 0, all, None, res, 0)
            /\ UNCHANGED <<clock, added, removed, procs>>

StoreComplete ==
    \E id \in Ids, r \in ReadOutcomes, w \in WriteOutcomes :
        LET res == complete(file, id, r, w)
        IN  /\ file' = res.file
            /\ last' = Last("complete", id, FALSE, None, res, 0)
            /\ added' = Tainted
            /\ UNCHANGED <<clock, removed, procs>>

StoreDelete ==
    \E id \in Ids, r \in ReadOutcomes, w \in WriteOutcomes :
        LET res == delete(file, id, r, w)
        IN  /\ file' = res.file
            /\ last' = Last("delete", id, FALSE, None, res, 0)
            /\ added' = Tainted
            /\ removed' = IF res.ret = "Ok" THEN removed \cup {id} ELSE removed
            /\ UNCHANGED <<clock, procs>>

StoreEdit ==
    \E id \in Ids, d \in OptDescriptions, r \in ReadOutcomes, w \in WriteOutcomes :
        /\ clock < MaxClock
        /\ LET res == edit(file, id, d, clock, r, w)
           IN  /\ file' = res.file
               /\ last' = Last("edit", id, FALSE, d, res, 0)
        /\ added' = Tainted
        /\ clock' = clock + 1
        /\ UNCHANGED <<removed, procs>>

Next == StoreAdd \/ StoreList \/ StoreComplete \/ StoreDelete \/ StoreEdit

Spec == Init /\ [][Next]_vars

----------------------------------------------------------------------------
(* CLI level: main.rs *)

\* str::trim: leading and trailing whitespace removed
RECURSIVE trim_start(_)
trim_start(str) ==
    IF str # <<>> /\ Head(str) \in Whitespace THEN trim_start(Tail(str)) ELSE str

RECURSIVE trim_end(_)
trim_end(str) ==
    IF str # <<>> /\ str[Len(str)] \in Whitespace
      THEN trim_end(SubSeq(str, 1, Len(str) - 1))
      ELSE str

\* the emptiness test made on the text as given
trim_omitted(str) == str

trim(str) == trim_end(trim_start(str))

\* the comparison of the confirmation made without lowering the case
to_lowercase_omitted(str) == str

\* str::to_lowercase, on the letters that occur in NukeInputs
to_lowercase(str) ==
    [i \in 1..Len(str) |->
        CASE str[i] = "Y" -> "y"
          [] str[i] = "E" -> "e"
          [] str[i] = "S" -> "s"
          [] str[i] = "N" -> "n"
          [] OTHER -> str[i]]

\* how the creation of the file can end in ensure_tasks_file_exists
CreateOutcomes == {"ok", "fail_create", "fail_write"}

\* ensure_tasks_file_exists creating the directory only, not the file
ensure_directory_only(f, c) ==
    IF ~f.exists /\ c = "fail_create"
      THEN Err("IoError", 0, f, FALSE)
      ELSE Ok(f, FALSE, <<>>)

\* ensure_tasks_file_exists
ensure_tasks_file_exists(f, c) ==
    IF ~f.exists
      THEN CASE c = "ok"          -> Ok(EmptyArray, FALSE, <<>>)
             [] c = "fail_create" -> Err("IoError", 0, f, FALSE)
             [] c = "fail_write"  -> Err("IoError", 0, ZeroLength, FALSE)
      ELSE Ok(f, FALSE, <<>>)

\* the command lines: the five subcommands of cli.rs with their arguments,
\* and "invalid" for anything Cli::parse rejects (an unknown subcommand, a
\* missing argument, an id outside 1.. as in `complete 0`)
Cmd(name, id, all, text) == [name |-> name, id |-> id, all |-> all, text |-> text]

AddCmds == {Cmd("add", 0, FALSE, d) : d \in CliDescriptions}
ListCmds == {Cmd("list", 0, all, <<>>) : all \in BOOLEAN}
CompleteCmds == {Cmd("complete", id, FALSE, <<>>) : id \in CliIds}
DeleteCmds == {Cmd("delete", id, FALSE, <<>>) : id \in CliIds}
NukeCmd == Cmd("nuke", 0, FALSE, <<>>)
InvalidCmds == {Cmd("invalid", 0, FALSE, <<>>), Cmd("complete", 0, FALSE, <<>>),
                Cmd("delete", 0, FALSE, <<>>)}

\* Cli::parse with the value_parser range(1..) of Complete and Delete
parse(cmd) ==
    /\ cmd.name \in {"add", "list", "complete", "delete", "nuke"}
    /\ cmd.name \in {"complete", "delete"} => cmd.id >= 1

\* run with the id of a new task counted from the incomplete tasks only
run_count_incomplete(f, cmd, input, now, r, w) ==
    CASE cmd.name = "add" ->
           IF trim(cmd.text) = <<>>
             THEN Err("InvalidInput", 0, f, FALSE)
             ELSE LET l == list(f, FALSE, r)
                      id == Len(l.out) + 1
                      task == Task_new(id, cmd.text, now)
                  IN  IF l.ret # "Ok" THEN l ELSE add(f, task, r, w)
      [] cmd.name = "list" -> list(f, cmd.all, r)
      [] cmd.name = "complete" -> complete(f, cmd.id, r, w)
      [] cmd.name = "delete" -> delete(f, cmd.id, r, w)
      [] cmd.name = "nuke" ->
           IF to_lowercase(trim(input)) = <<"y">>
             THEN IF f.exists /\ w = "ok" THEN Ok(Absent, FALSE, <<>>)
                  ELSE Err("IoError", 0, f, FALSE)
             ELSE Ok(f, FALSE, <<>>)

\* run with the ids counted from 0: the id of a new task is the number of
\* stored tasks
run_ids_from_zero(f, cmd, input, now, r, w) ==
    CASE cmd.name = "add" ->
           IF trim(cmd.text) = <<>>
             THEN Err("InvalidInput", 0, f, FALSE)
             ELSE LET l == list(f, TRUE, r)
                      id == Len(l.out)
                      task == Task_new(id, cmd.text, now)
                  IN  IF l.ret # "Ok" THEN l ELSE add(f, task, r, w)
      [] cmd.name = "list" -> list(f, cmd.all, r)
      [] cmd.name = "complete" -> complete(f, cmd.id, r, w)
      [] cmd.name = "delete" -> delete(f, cmd.id, r, w)
      [] cmd.name = "nuke" ->
           IF to_lowercase(trim(input)) = <<"y">>
             THEN IF f.exists /\ w = "ok" THEN Ok(Absent, FALSE, <<>>)
                  ELSE Err("IoError", 0, f, FALSE)
             ELSE Ok(f, FALSE, <<>>)

\* run with the description of an add passed on as it is given
run_unvalidated(f, cmd, input, now, r, w) ==
    CASE cmd.name = "add" ->
           LET l == list(f, TRUE, r)
               id == Len(l.out) + 1
               task == Task_new(id, cmd.text, now)
           IN  IF l.ret # "Ok" THEN l ELSE add(f, task, r, w)
      [] cmd.name = "list" -> list(f, cmd.all, r)
      [] cmd.name = "complete" -> complete(f, cmd.id, r, w)
      [] cmd.name = "delete" -> delete(f, cmd.id, r, w)
      [] cmd.name = "nuke" ->
           IF to_lowercase(trim(input)) = <<"y">>
             THEN IF f.exists /\ w = "ok" THEN Ok(Absent, FALSE, <<>>)
                  ELSE Err("IoError", 0, f, FALSE)
             ELSE Ok(f, FALSE, <<>>)

\* run: one command against the store; `input` is the line read from
\* standard input, `now` the clock reading Task::new takes; for nuke, `w`
\* is how std::fs::remove_file ends (it fails on a file that is not there)
run(f, cmd, input, now, r, w) ==
    CASE cmd.name = "add" ->
           IF trim(cmd.text) = <<>>
             THEN Err("InvalidInput", 0, f, FALSE)
             ELSE LET l == list(f, TRUE, r)
                      id == Len(l.out) + 1
                      task == Task_new(id, cmd.text, now)
                  IN  IF l.ret # "Ok" THEN l ELSE add(f, task, r, w)
      [] cmd.name = "list" -> list(f, cmd.all, r)
      [] cmd.name = "complete" -> complete(f, cmd.id, r, w)
      [] cmd.name = "delete" -> delete(f, cmd.id, r, w)
      [] cmd.name = "nuke" ->
           IF to_lowercase(trim(input)) = <<"y">>
             THEN IF f.exists /\ w = "ok" THEN Ok(Absent, FALSE, <<>>)
                  ELSE Err("IoError", 0, f, FALSE)
             ELSE Ok(f, FALSE, <<>>)

\* whether run reads the clock: Task::new is reached
reads_clock(f, cmd, r) ==
    /\ cmd.name = "add"
    /\ trim(cmd.text) # <<>>
    /\ list(f, TRUE, r).ret = "Ok"

\* impl Display for TaskError
fmt(e) ==
    CASE e.ret = "NotFound"     -> Message("Task with ID {} not found", e.err_id)
      [] e.ret = "IoError"      -> Message("I/O error - {}", 0)
      [] e.ret = "SerdeError"   -> Message("Serialization error -  {}", 0)
      [] e.ret = "InvalidInput" -> Message("Invalid input - {}", 0)

\* main with the command line parsed before the file is ensured
main_parse_first(f, cmd, input, now, c, r, w) ==
    LET e == ensure_tasks_file_exists(f, c)
    IN  IF ~parse(cmd)
          THEN [res |-> Err("Usage", 0, f, FALSE), exit |-> 2,
                stderr |-> Message("error: {}", 0)]
        ELSE IF e.ret # "Ok" THEN [res |-> e, exit |-> 1, stderr |-> fmt(e)]
        ELSE LET res == run(e.file, cmd, input, now, r, w)
             IN  IF res.ret # "Ok"
                   THEN [res |-> res, exit |-> 1, stderr |-> fmt(res)]
                   ELSE [res |-> res, exit |-> 0, stderr |-> NoMessage]

\* main reporting a failed command on the error stream and then returning
main_exit_missing(f, cmd, input, now, c, r, w) ==
    LET e == ensure_tasks_file_exists(f, c)
    IN  IF e.ret # "Ok" THEN [res |-> e, exit |-> 1, stderr |-> fmt(e)]
        ELSE IF ~parse(cmd)
          THEN [res |-> Err("Usage", 0, e.file, FALSE), exit |-> 2,
                stderr |-> Message("error: {}", 0)]
        ELSE LET res == run(e.file, cmd, input, now, r, w)
             IN  IF res.ret # "Ok"
                   THEN [res |-> res, exit |-> 0, stderr |-> fmt(res)]
                   ELSE [res |-> res, exit |-> 0, stderr |-> NoMessage]

\* main: the result of the invocation, the exit code of the process and
\* what eprintln!("Error: {}", e) wrote; a command line that Cli::parse
\* rejects ends the process with clap's usage error and exit code 2
main(f, cmd, input, now, c, r, w) ==
    LET e == ensure_tasks_file_exists(f, c)
    IN  IF e.ret # "Ok" THEN [res |-> e, exit |-> 1, stderr |-> fmt(e)]
        ELSE IF ~parse(cmd)
          THEN [res |-> Err("Usage", 0, e.file, FALSE), exit |-> 2,
                stderr |-> Message("error: {}", 0)]
        ELSE LET res == run(e.file, cmd, input, now, r, w)
             IN  IF res.ret # "Ok"
                   THEN [res |-> res, exit |-> 1, stderr |-> fmt(res)]
                   ELSE [res |-> res, exit |-> 0, stderr |-> NoMessage]

\* one invocation of the program; c, r and w are how the creation of the
\* file, the reads and the writes (or the removal) end
InvokeWith(cmd, input, c, r, w) ==
    \E m \in {main(file, cmd, input, clock, c, r, w)} :
    LET e == ensure_tasks_file_exists(file, c)
        reads == /\ e.ret = "Ok"
                 /\ parse(cmd)
                 /\ reads_clock(e.file, cmd, r)
        arg == [some |-> FALSE,
                text |-> IF cmd.name = "nuke" THEN input ELSE cmd.text]
        stored == Stored(m.res.file)
    IN  /\ reads => clock < MaxClock
        /\ file' = m.res.file
        /\ last' = [Last(cmd.name, cmd.id, cmd.all, arg, m.res, m.exit)
                      EXCEPT !.msg = m.stderr]
        /\ clock' = IF reads THEN clock + 1 ELSE clock
        /\ added' = CASE cmd.name = "add" /\ m.res.ret = "Ok" /\ added.known ->
                           Known(Append(added.tasks, stored[Len(stored)]))
                      [] cmd.name = "add" /\ m.res.ret = "InvalidInput" -> added
                      [] cmd.name = "list" -> added
                      [] OTHER -> Tainted
        /\ removed' = IF cmd.name = "delete" /\ m.res.ret = "Ok"
                        THEN removed \cup {cmd.id} ELSE removed
        /\ UNCHANGED procs

\* one invocation of the program in which every file operation succeeds
Invoke(cmd, input) == InvokeWith(cmd, input, "ok", "ok", "ok")

CliAdd ==
    \E cmd \in AddCmds : parse(cmd) /\ Invoke(cmd, <<>>)

CliList ==
    \E cmd \in ListCmds : parse(cmd) /\ Invoke(cmd, <<>>)

CliComplete ==
    \E cmd \in CompleteCmds : parse(cmd) /\ Invoke(cmd, <<>>)

CliDelete ==
    \E cmd \in DeleteCmds : parse(cmd) /\ Invoke(cmd, <<>>)

CliNuke ==
    \E input \in NukeInputs : parse(NukeCmd) /\ Invoke(NukeCmd, input)

\* a command line Cli::parse rejects: the process exits after the file was
\* ensured and before run
CliReject ==
    \E cmd \in InvalidCmds : ~parse(cmd) /\ Invoke(cmd, <<>>)

NextCLI == CliAdd \/ CliList \/ CliComplete \/ CliDelete \/ CliNuke \/ CliReject

SpecCLI == Init /\ [][NextCLI]_vars

\* the command lines with the line typed at the prompt (nuke alone reads it)
Invocations ==
    {<<cmd, <<>>>> : cmd \in AddCmds \cup ListCmds \cup CompleteCmds
                               \cup DeleteCmds \cup InvalidCmds}
      \cup {<<NukeCmd, input>> : input \in NukeInputs}

\* the ways one file operation of an invocation can fail (the first failure
\* ends the process): the creation of the file, a read, a write or removal
Faults ==
    {<<"fail_create", "ok", "ok">>, <<"fail_write", "ok", "ok">>,
     <<"ok", "fail", "ok">>, <<"ok", "ok", "fail_open">>,
     <<"ok", "ok", "fail_write">>}

\* whether the invocation performs the file operation that the fault is in:
\* the file is created only when it is absent; the commands that reach the
\* store read the file; add, complete, delete write it and a confirmed nuke
\* removes it
Performs(cmd, input, x) ==
    LET store == \/ cmd.name \in {"list", "complete", "delete"}
                 \/ cmd.name = "add" /\ trim(cmd.text) # <<>>
    IN  IF x[1] # "ok" THEN ~file.exists
        ELSE /\ parse(cmd)
             /\ IF x[2] # "ok" THEN store
                ELSE \/ store /\ cmd.name # "list"
                     \/ cmd.name = "nuke" /\ to_lowercase(trim(input)) = <<"y">>

\* an invocation in which a file operation fails
CliFault ==
    \E inv \in Invocations, x \in Faults :
        /\ x[1] \in CreateOutcomes /\ x[2] \in ReadOutcomes /\ x[3] \in WriteOutcomes
        /\ Performs(inv[1], inv[2], x)
        /\ InvokeWith(inv[1], inv[2], x[1], x[2], x[3])

NextCLIIO == NextCLI \/ CliFault

\* the command line program on a file system whose operations can fail
SpecCLIIO == Init /\ [][NextCLIIO]_vars

----------------------------------------------------------------------------
(* Invocations that run at the same time.  Each file operation of main()   *)
(* is a step of its own: path.exists(), File::create, the open and the     *)
(* write of std::fs::write, read_to_string.  What a process computes in    *)
(* memory between two file operations belongs to the step of the first.    *)

\* the command lines of the concurrent invocations
RaceCmds ==
    {Cmd("add", 0, FALSE, <<"a">>), Cmd("list", 0, TRUE, <<>>),
     Cmd("complete", 1, FALSE, <<>>), Cmd("delete", 1, FALSE, <<>>)}

\* File::create opening a file only when there is none (create_new)
File_create_new(f) == IF f.exists THEN f ELSE ZeroLength

\* File::create, also the first half of std::fs::write: the file is created
\* or truncated to zero length
File_create(f) == ZeroLength

\* whether the bytes of data, written from offset 0, reach the end of what
\* the file holds: always on a file of zero length or one holding [], by the
\* number of objects otherwise; with as many objects on both sides the
\* widths of the fields decide, which the model does not fix
covers(f, data) ==
    IF f.items = <<>> THEN {TRUE}
    ELSE IF Len(data) > Len(f.items) THEN {TRUE}
    ELSE IF Len(data) < Len(f.items) THEN {FALSE}
    ELSE IF f.valid /\ data = f.items THEN {TRUE}
    ELSE BOOLEAN

\* a write that puts the data after what the file holds (O_APPEND)
write_all_append(f, data, cover) == FileOf(f.items \o data)

\* write_all on the file opened by std::fs::write: the data replaces the
\* bytes from offset 0; bytes another process wrote beyond the end of the
\* data stay, and the file is then no JSON array
write_all(f, data, cover) ==
    IF cover THEN FileOf(data)
    ELSE [exists |-> TRUE, valid |-> FALSE, items |-> f.items]

\* an id that is the largest stored id plus one
next_id_after_largest(tasks) ==
    IF tasks = <<>> THEN 1
    ELSE 1 + CHOOSE m \in {tasks[i].id : i \in 1..Len(tasks)} :
                 \A i \in 1..Len(tasks) : tasks[i].id <= m

\* store.list(true)?.len() as u32 + 1
next_id(tasks) == Len(tasks) + 1

\* the process moves to another position, or changes what it holds
Goto(p, pc) == procs' = [procs EXCEPT ![p].pc = pc]

\* main returns: the process records the result and is idle again
Return(p, res) ==
    LET cmd == procs[p].cmd
        arg == [some |-> FALSE, text |-> cmd.text]
    IN  /\ procs' = [procs EXCEPT ![p].pc = "idle", ![p].ret = res.ret,
                                  ![p].saved = res.saved]
        /\ last' = [Last(cmd.name, cmd.id, cmd.all, arg, res,
                         IF res.ret = "Ok" THEN 0 ELSE 1)
                      EXCEPT !.msg = IF res.ret = "Ok" THEN NoMessage
                                     ELSE fmt(res)]
        /\ added' = CASE cmd.name = "add" /\ res.ret = "Ok" /\ added.known ->
                           Known(Append(added.tasks, procs[p].task))
                      [] cmd.name = "list" -> added
                      [] OTHER -> Tainted
        /\ removed' = IF cmd.name = "delete" /\ res.ret = "Ok"
                        THEN removed \cup {cmd.id} ELSE removed

\* a process starts the program with a command line
Start(p) ==
    /\ procs[p].pc = "idle"
    /\ procs[p].round + 1 \in Rounds
    /\ \E cmd \in RaceCmds :
          procs' = [procs EXCEPT ![p] = [Idle EXCEPT !.pc = "exists",
                                             !.round = procs[p].round + 1,
                                             !.cmd = cmd]]
    /\ UNCHANGED <<file, clock, last, added, removed>>

\* ensure_tasks_file_exists: if !path.exists()
Exists(p) ==
    /\ procs[p].pc = "exists"
    /\ Goto(p, IF file.exists THEN "run" ELSE "create")
    /\ UNCHANGED <<file, clock, last, added, removed>>

\* ensure_tasks_file_exists: File::create(path)
Create(p) ==
    /\ procs[p].pc = "create"
    /\ file' = File_create(file)
    /\ Goto(p, "init_open")
    /\ UNCHANGED <<clock, last, added, removed>>

\* ensure_tasks_file_exists: std::fs::write(path, "[]"), the open
InitOpen(p) ==
    /\ procs[p].pc = "init_open"
    /\ file' = File_create(file)
    /\ Goto(p, "init_write")
    /\ UNCHANGED <<clock, last, added, removed>>

\* ensure_tasks_file_exists: std::fs::write(path, "[]"), the write
InitWrite(p) ==
    /\ procs[p].pc = "init_write"
    /\ \E cover \in covers(file, <<>>) : file' = write_all(file, <<>>, cover)
    /\ Goto(p, "run")
    /\ UNCHANGED <<clock, last, added, removed>>

\* run: store.list of the list command, and of the add command, which
\* takes the id of its task from it and builds the task
ListStep(p) ==
    /\ procs[p].pc = "run"
    /\ procs[p].cmd.name \in {"add", "list"}
    /\ \E l \in {list(file, TRUE, "ok")} :
          IF procs[p].cmd.name = "list" \/ l.ret # "Ok"
            THEN Return(p, l) /\ UNCHANGED <<file, clock>>
            ELSE /\ clock < MaxClock
                 /\ procs' = [procs EXCEPT
                        ![p].pc = "load",
                        ![p].task = Task_new(next_id(l.out),
                                             procs[p].cmd.text, clock)]
                 /\ clock' = clock + 1
                 /\ UNCHANGED <<file, last, added, removed>>

\* the load of store.add, store.complete or store.delete, and what the
\* operation makes of the tasks it loaded
LoadStep(p) ==
    /\ \/ procs[p].pc = "load"
       \/ procs[p].pc = "run" /\ procs[p].cmd.name \in {"complete", "delete"}
    /\ \E res \in {CASE procs[p].cmd.name = "add" ->
                          add(file, procs[p].task, "ok", "ok")
                     [] procs[p].cmd.name = "complete" ->
                          complete(file, procs[p].cmd.id, "ok", "ok")
                     [] procs[p].cmd.name = "delete" ->
                          delete(file, procs[p].cmd.id, "ok", "ok")} :
          IF res.saved
            THEN /\ procs' = [procs EXCEPT ![p].pc = "save_open",
                                           ![p].snap = Stored(file),
                                           ![p].data = res.file.items]
                 /\ UNCHANGED <<last, added, removed>>
            ELSE Return(p, res)
    /\ UNCHANGED <<file, clock>>

\* JsonStore::save: std::fs::write(&self.path, data), the open
SaveOpen(p) ==
    /\ procs[p].pc = "save_open"
    /\ file' = File_create(file)
    /\ Goto(p, "save_write")
    /\ UNCHANGED <<clock, last, added, removed>>

\* JsonStore::save: std::fs::write(&self.path, data), the write
SaveWrite(p) ==
    /\ procs[p].pc = "save_write"
    /\ \E cover \in covers(file, procs[p].data) :
          /\ file' = write_all(file, procs[p].data, cover)
          /\ Return(p, Ok(file', TRUE, <<>>))
    /\ UNCHANGED clock

NextRace ==
    \E p \in Procs :
        \/ Start(p) \/ Exists(p) \/ Create(p) \/ InitOpen(p) \/ InitWrite(p)
        \/ ListStep(p) \/ LoadStep(p) \/ SaveOpen(p) \/ SaveWrite(p)

\* two processes running the program at the same time on the same file
SpecRace == Init /\ [][NextRace]_vars

----------------------------------------------------------------------------
(* Properties *)

\* the ids of the stored tasks, and the stored tasks that are not completed
HasId(tasks, id) == \E i \in 1..Len(tasks) : tasks[i].id = id
Incomplete(tasks) == SelectSeq(tasks, LAMBDA t : ~t.completed)

\* the position of the first task with that id
FirstWithId(tasks, id) ==
    CHOOSE i \in 1..Len(tasks) :
        /\ tasks[i].id = id
        /\ \A j \in 1..(i - 1) : tasks[j].id # id

\* C1: on a store that started empty or absent and has seen nothing but
\* successful adds (and lists), list(true) returns exactly the added tasks,
\* each once, in the order they were added.
C1_ListAfterAdds ==
    (added.known /\ last.op = "list" /\ last.all /\ last.ret = "Ok")
        => last.out = added.tasks

C1_Witness ==
    /\ added.known /\ last.op = "list" /\ last.all /\ last.ret = "Ok"
    /\ Len(added.tasks) = 3
    /\ added.tasks[1].id = 2 /\ added.tasks[2].id = 1 /\ added.tasks[3].id = 2

\* C2: after a successful complete(id) on the command line, list(false)
\* holds no task with that id and list(true) still holds one.
C2_CompletedIdHidden ==
    (last.op = "complete" /\ last.ret = "Ok")
        => /\ ~HasId(list(file, FALSE, "ok").out, last.id)
           /\ HasId(list(file, TRUE, "ok").out, last.id)

\* C3: the stored tasks have pairwise distinct ids.
C3_UniqueIds ==
    \A i, j \in 1..Len(Stored(file)) :
        i # j => Stored(file)[i].id # Stored(file)[j].id

\* C4: an add never creates a task with an id that a delete has removed.
C4_IdNotReused ==
    (last.op = "add" /\ last.ret = "Ok")
        => Stored(file)[Len(Stored(file))].id \notin removed

\* an add step of the command line appends Task::new(count + 1, description)
C5_AddStep ==
    (last'.op = "add" /\ last'.ret = "Ok")
        => Stored(file') =
             Append(Stored(file),
                    [id |-> Len(Stored(file)) + 1, description |-> last'.text,
                     created_at |-> clock, updated_at |-> clock,
                     completed |-> FALSE])

\* n adds in a row on an empty store hold the ids 1..n, none completed
C5_ConsecutiveAdds ==
    added.known =>
        /\ Len(Stored(file)) = Len(added.tasks)
        /\ \A n \in 1..Len(Stored(file)) :
              Stored(file)[n].id = n /\ ~Stored(file)[n].completed

\* the add that follows the delete that emptied the store gets id 1
C5_AfterEmptyingDelete ==
    (/\ last.op = "delete" /\ last.ret = "Ok" /\ Stored(file) = <<>>
     /\ last'.op = "add" /\ last'.ret = "Ok")
        => Len(Stored(file')) = 1 /\ Stored(file')[1].id = 1

\* C5: the add command appends a task whose id is the number of stored
\* tasks (completed ones included) plus one, not completed; so n adds on an
\* empty store give the ids 1..n, and an add after the delete that emptied
\* the store gives id 1 again.
C5_IdIsCountPlusOne ==
    /\ []C5_ConsecutiveAdds
    /\ [][C5_AddStep]_vars
    /\ [][C5_AfterEmptyingDelete]_vars

C5_Witness ==
    /\ last.op = "add" /\ last.ret = "Ok"
    /\ 1 \in removed
    /\ Len(Stored(file)) = 1 /\ Stored(file)[1].id = 1

\* C6: a delete of an id that is not stored returns NotFound with that id,
\* calls no save and leaves the file as it was (absent if it was absent).
C6_DeleteNotFound ==
    [][(last'.op = "delete" /\ ~HasId(Stored(file), last'.id)
            /\ (file.exists => file.valid) /\ last'.ret # "IoError")
         => /\ last'.ret = "NotFound" /\ last'.err_id = last'.id
            /\ ~last'.saved
            /\ file' = file]_vars

C6_Witness ==
    /\ last.op = "delete" /\ last.ret = "NotFound" /\ last.err_id = 2
    /\ Len(Stored(file)) = 2 /\ ~HasId(Stored(file), 2)

\* C7: a complete of an id that is not stored returns NotFound with that
\* id, calls no save and leaves the stored sequence as it was.
C7_CompleteNotFound ==
    [][(last'.op = "complete" /\ ~HasId(Stored(file), last'.id)
            /\ (file.exists => file.valid) /\ last'.ret # "IoError")
         => /\ last'.ret = "NotFound" /\ last'.err_id = last'.id
            /\ ~last'.saved
            /\ file' = file]_vars

C7_Witness ==
    /\ last.op = "complete" /\ last.ret = "NotFound" /\ last.err_id = 1
    /\ Len(Stored(file)) = 2 /\ ~HasId(Stored(file), 1)

C9_EditStep ==
    (last'.op = "edit" /\ last'.ret = "Ok") =>
        LET old == Stored(file)
            new == Stored(file')
            i == FirstWithId(old, last'.id)
        IN  /\ HasId(old, last'.id)
            /\ Len(new) = Len(old)
            /\ new[i].description =
                 IF last'.some THEN last'.text ELSE old[i].description
            /\ new[i].updated_at = clock
            /\ new[i].updated_at # old[i].updated_at
            /\ new[i].updated_at > new[i].created_at

\* C9: an edit of a stored id leaves the description of the first task
\* with that id as it was when no description is given, sets it to the
\* given one otherwise, and in both cases sets updated_at to the time of
\* the edit, which is later than created_at.
C9_Edit == [][C9_EditStep]_vars

C9_Witness ==
    /\ last.op = "edit" /\ last.ret = "Ok" /\ ~last.some /\ last.id = 1
    /\ Len(Stored(file)) = 2
    /\ Stored(file)[1].id = 1 /\ Stored(file)[2].id = 1
    /\ Stored(file)[1].updated_at > Stored(file)[1].created_at
    /\ Stored(file)[2].updated_at = Stored(file)[2].created_at

\* what a list step returns and leaves behind
C10_ListStep ==
    last'.op = "list" =>
        /\ file' = file
        /\ ~last'.saved
        /\ last'.ret = "Ok" =>
             last'.out = IF last'.all THEN Stored(file)
                         ELSE Incomplete(Stored(file))
        /\ (file \in {Absent, EmptyArray} /\ last'.ret # "IoError") =>
             (last'.ret = "Ok" /\ last'.out = <<>>)
        /\ ~file.exists => last'.ret = "Ok"

\* C10: list(true) returns the whole stored sequence and list(false) its
\* subsequence of tasks that are not completed, in the same order; list on
\* an empty or absent store succeeds with an empty result unless the read
\* itself fails; list never writes to the file.
C10_List == [][C10_ListStep]_vars

C10_Witness ==
    /\ last.op = "list" /\ last.ret = "Ok" /\ ~last.all
    /\ Len(Stored(file)) = 3 /\ Len(last.out) = 2
    /\ Stored(file)[2].completed
    /\ last.out = <<Stored(file)[1], Stored(file)[3]>>

\* whether the line typed at the prompt is y or Y, blanks and the line end
\* beside it not counted
IsYes(input) ==
    SelectSeq(input, LAMBDA ch : ch \notin Whitespace) \in {<<"y">>, <<"Y">>}

\* whether a text holds nothing but whitespace
IsBlank(text) == \A i \in 1..Len(text) : text[i] \in Whitespace

\* what a nuke step does for a given line
C11_NukeStep ==
    last'.op = "nuke" =>
        IF IsYes(last'.text)
          THEN ~file'.exists
          ELSE /\ file'.exists
               /\ Stored(file') = Stored(file)
               /\ file.exists => file' = file
               /\ last'.ret = "Ok" /\ last'.exit = 0

\* C11: the nuke command removes the tasks file if and only if the line
\* typed is y or Y; on any other line, the empty one included, it is
\* cancelled, the file exists afterwards and holds the tasks it held.
C11_NukeOnlyOnYes == [][C11_NukeStep]_vars

C11_Witness ==
    /\ last.op = "nuke" /\ last.text = <<"y", "e", "s", "\n">>
    /\ last.ret = "Ok" /\ Len(Stored(file)) = 2

\* what a confirmed nuke does, and what the invocation after it finds
C12_NukeStep ==
    /\ (last'.op = "nuke" /\ IsYes(last'.text))
          => last'.ret = "Ok" /\ last'.exit = 0 /\ file' = Absent
    /\ (last.op = "nuke" /\ IsYes(last.text)) =>
          /\ ~file.exists
          /\ last'.op = "list" => last'.ret = "Ok" /\ last'.out = <<>>
          /\ (last'.op \in {"complete", "delete"} /\ last'.exit # 2)
                => last'.ret = "NotFound" /\ file'.exists
          /\ (last'.op = "add" /\ last'.ret = "Ok") =>
                Len(Stored(file')) = 1 /\ Stored(file')[1].id = 1

\* C12: a confirmed nuke succeeds and leaves the tasks file absent whatever
\* was there before (tasks, an empty array, no file), also when it follows
\* another confirmed nuke, and the invocation after it sees no tasks.
C12_ConfirmedNuke == [][C12_NukeStep]_vars

C12_Witness ==
    /\ last.op = "nuke" /\ last.text = <<"Y", "\n">>
    /\ last.ret = "Ok" /\ last.exit = 0 /\ ~file.exists
    /\ clock = MaxClock

\* what the add command does with a blank description
C13_BlankAddStep ==
    (last'.op = "add" /\ IsBlank(last'.text) /\ last'.ret # "IoError") =>
        /\ last'.ret = "InvalidInput" /\ last'.exit # 0
        /\ ~last'.saved
        /\ Stored(file') = Stored(file)
        /\ file.exists => file' = file
        /\ clock' = clock

\* C13: the add command with an empty or blank description fails with
\* InvalidInput before the store is used: nothing is appended, the stored
\* tasks are unchanged and the exit code is not zero.
C13_BlankAddRejected == [][C13_BlankAddStep]_vars

C13_Witness ==
    /\ last.op = "add" /\ last.text = <<" ">> /\ last.ret = "InvalidInput"
    /\ last.exit = 1 /\ Len(Stored(file)) = 2

\* what every invocation does to the presence of the tasks file
C14_EnsureStep ==
    /\ ~(last'.op = "nuke" /\ IsYes(last'.text)) => file'.exists
    /\ (~file.exists /\ (last'.exit # 0 \/ last'.op \in {"list", "nuke"}))
          => file' = (IF last'.op = "nuke" /\ IsYes(last'.text)
                        THEN Absent ELSE EmptyArray)
    /\ (file.exists /\ (last'.exit # 0 \/ last'.op = "list")) => file' = file
    /\ file.exists =>
          \A c \in CreateOutcomes :
              ensure_tasks_file_exists(file, c) = Ok(file, FALSE, <<>>)

\* C14: every invocation first makes sure that the tasks file exists,
\* creating it with the content [] when it is absent, before the arguments
\* are parsed and the command runs: after any invocation but a confirmed
\* nuke, a failed command and a rejected command line included, the file
\* exists, and a file that existed is not overwritten by that step.
C14_FileEnsured == [][C14_EnsureStep]_vars

C14_Witness ==
    /\ last.op = "invalid" /\ last.exit = 2 /\ file = EmptyArray
    /\ ~added.known

ErrorKinds == {"NotFound", "IoError", "SerdeError", "InvalidInput"}

\* the exit code is not zero exactly when the result is one of the four
\* errors of TaskError
C15_ExitIffTaskError == (last.exit # 0) <=> (last.ret \in ErrorKinds)

\* the exit code and the error stream of every invocation
C15_ExitStep ==
    /\ last'.ret \in ErrorKinds \union {"Usage", "Ok"}
    /\ last'.exit = (CASE last'.ret \in ErrorKinds -> 1
                       [] last'.ret = "Usage" -> 2
                       [] OTHER -> 0)
    /\ (last'.exit = 0) <=> (last'.msg = NoMessage)
    /\ (last'.ret = "Usage" \/ last'.exit = 2) =>
          \/ last'.op = "invalid"
          \/ last'.op \in {"complete", "delete"} /\ last'.id < 1
    /\ (last'.op = "invalid" /\ last'.ret # "IoError") => last'.exit = 2
    /\ (/\ last'.op \in {"complete", "delete"}
        /\ last'.ret \notin {"Usage", "IoError", "SerdeError"}
        /\ ~HasId(Stored(file), last'.id))
          => /\ last'.ret = "NotFound" /\ last'.exit = 1
             /\ last'.msg = Message("Task with ID {} not found", last'.id)

\* C15: an invocation exits with a code other than zero exactly when the
\* initialisation of the file or the command returns an error (NotFound,
\* IoError, SerdeError, InvalidInput; code 1) or the command line is
\* rejected by the parser (code 2), and with zero otherwise; complete and
\* delete of an id that is not stored exit with 1 and the message
\* Task with ID <id> not found.
C15_ExitCode == [][C15_ExitStep]_vars

C15_Witness ==
    /\ last.op = "delete" /\ last.ret = "NotFound" /\ last.exit = 1
    /\ last.id = 3 /\ last.msg = Message("Task with ID {} not found", 3)
    /\ Len(Stored(file)) = 2

\* what the operations do on a file that is absent, and on one that exists
\* and is not a JSON array
C16_LoadStep ==
    /\ (~file.exists /\ last'.op # "none") =>
          /\ last'.ret # "SerdeError"
          /\ last'.ret = "IoError" => last'.op = "add" /\ last'.saved
          /\ last'.op = "list" =>
                last'.ret = "Ok" /\ last'.out = <<>> /\ file' = file
          /\ (last'.op = "add" /\ last'.ret = "Ok") =>
                /\ file'.exists /\ file'.valid
                /\ Stored(file') = <<Task_new(last'.id, last'.text, clock)>>
          /\ last'.op \in {"complete", "delete", "edit"} =>
                /\ last'.ret = "NotFound" /\ last'.err_id = last'.id
                /\ file' = file
    /\ (file.exists /\ ~file.valid /\ last'.ret # "IoError") =>
          /\ last'.ret = "SerdeError"
          /\ ~last'.saved
          /\ file' = file

\* C16: load takes an absent file for the empty sequence and never for an
\* error (list returns nothing, add creates the file with exactly the task
\* added, complete, delete and edit return NotFound), whereas a file that
\* exists and is not a JSON task array, a zero-length file included, makes
\* every operation fail with the serialization error.
C16_AbsentIsEmptyCorruptIsError == [][C16_LoadStep]_vars

C16_Witness ==
    /\ file = ZeroLength
    /\ last.op = "complete" /\ last.ret = "SerdeError" /\ ~last.saved
    /\ clock = 3

\* C17: an edit of an id that is not stored returns NotFound with that id,
\* whatever the description given, calls no save and leaves the stored
\* sequence as it was.
C17_EditNotFound ==
    [][(last'.op = "edit" /\ ~HasId(Stored(file), last'.id)
            /\ (file.exists => file.valid) /\ last'.ret # "IoError")
         => /\ last'.ret = "NotFound" /\ last'.err_id = last'.id
            /\ ~last'.saved
            /\ file' = file]_vars

C17_Witness ==
    /\ last.op = "edit" /\ last.ret = "NotFound" /\ last.err_id = 1
    /\ last.some /\ last.text = <<"a">>
    /\ Len(Stored(file)) = 2 /\ ~HasId(Stored(file), 1)

\* the created_at and updated_at of a task
Timestamps(t) == <<t.created_at, t.updated_at>>

\* whether s is t with some of its elements left out
RECURSIVE IsSubsequence(_, _)
IsSubsequence(s, t) ==
    IF s = <<>> THEN TRUE
    ELSE IF t = <<>> THEN FALSE
    ELSE IF Head(s) = Head(t) THEN IsSubsequence(Tail(s), Tail(t))
    ELSE IsSubsequence(s, Tail(t))

\* updated_at is never earlier than created_at
C18_NotEarlier ==
    \A i \in 1..Len(Stored(file)) :
        Stored(file)[i].updated_at >= Stored(file)[i].created_at

\* what the operations do to the timestamps of the stored tasks (a file
\* emptied by a failed write holds no task any more)
C18_TimestampStep ==
    LET old == Stored(file)
        new == Stored(file')
        written == file'.exists /\ file'.valid
    IN  /\ (last'.op = "add" /\ last'.ret = "Ok") =>
              /\ SubSeq(new, 1, Len(old)) = old
              /\ Len(new) = Len(old) + 1
              /\ new[Len(new)].updated_at = new[Len(new)].created_at
        /\ last'.op = "list" => new = old
        /\ (last'.op = "complete" /\ written) =>
              /\ Len(new) = Len(old)
              /\ \A i \in 1..Len(old) : Timestamps(new[i]) = Timestamps(old[i])
        /\ last'.op = "delete" => IsSubsequence(new, old)
        /\ (last'.op = "edit" /\ last'.ret = "Ok") =>
              \A i \in 1..Len(old) :
                  i # FirstWithId(old, last'.id) => new[i] = old[i]
        /\ (last'.op \in {"add", "complete", "edit"} /\ last'.ret # "Ok"
            /\ written) => new = old

\* C18: updated_at equals created_at on a task to which no edit has been
\* applied: a new task has them equal, and add, list, complete and delete
\* change neither timestamp of any task (an edit changes those of the task
\* it edits only); updated_at is never earlier than created_at.
C18_Timestamps == []C18_NotEarlier /\ [][C18_TimestampStep]_vars

C18_Witness ==
    /\ last.op = "complete" /\ last.ret = "Ok" /\ last.id = 1
    /\ Len(Stored(file)) = 2
    /\ Stored(file)[1].id = 1 /\ Stored(file)[1].completed
    /\ Stored(file)[1].updated_at = Stored(file)[1].created_at
    /\ Stored(file)[2].updated_at > Stored(file)[2].created_at

C20_DeleteStep ==
    (last'.op = "delete" /\ last'.ret = "Ok") =>
        LET old == Stored(file)
            new == Stored(file')
        IN  /\ HasId(old, last'.id)
            /\ ~HasId(new, last'.id)
            /\ new = SelectSeq(old, LAMBDA t : t.id # last'.id)
            /\ file'.exists /\ file'.valid
            /\ new = <<>> =>
                  /\ file' = EmptyArray
                  /\ list(file', TRUE, "ok") = Ok(file', FALSE, <<>>)

\* C20: a successful delete removes every stored task with the id, more
\* than one if there are, leaves the other tasks as they were and in their
\* order, and leaves the file in place when nothing remains: the file then
\* holds an empty array and list returns no task.
C20_DeleteRemovesAll == [][C20_DeleteStep]_vars

C20_Witness ==
    /\ last.op = "delete" /\ last.ret = "Ok" /\ last.id = 2
    /\ file = EmptyArray /\ clock = MaxClock

\* what a successful complete step changes
C21_CompleteStep ==
    (last'.op = "complete" /\ last'.ret = "Ok") =>
        LET old == Stored(file)
            new == Stored(file')
            i == FirstWithId(old, last'.id)
        IN  /\ HasId(old, last'.id)
            /\ new = [old EXCEPT ![i].completed = TRUE]
            /\ Len(new) = Len(old)
            /\ \A j \in 1..Len(old) : j # i => new[j] = old[j]
            /\ new[i].id = old[i].id
            /\ new[i].description = old[i].description
            /\ Timestamps(new[i]) = Timestamps(old[i])

\* C21: a successful complete sets completed on the first task, in the
\* order of the sequence, that has the id, and changes nothing else: the
\* number and order of the tasks, every other task (later ones with the
\* same id included) and the other fields of the task are as before.
C21_CompleteFrame == [][C21_CompleteStep]_vars

C21_Witness ==
    /\ last.op = "complete" /\ last.ret = "Ok" /\ last.id = 2
    /\ Len(Stored(file)) = 3
    /\ Stored(file)[1].id = 2 /\ Stored(file)[1].completed
    /\ Stored(file)[2].id = 1
    /\ Stored(file)[3].id = 2 /\ ~Stored(file)[3].completed

\* what an add step of the store does
C22_AddStep ==
    last'.op = "add" =>
        LET old == Stored(file)
            new == Stored(file')
        IN  /\ last'.ret = "Ok" =>
                  /\ new = Append(old, Task_new(last'.id, last'.text, clock))
                  /\ Len(new) = Len(old) + 1
                  /\ SubSeq(new, 1, Len(old)) = old
            /\ ((file.exists => file.valid) /\ last'.ret # "IoError")
                  => last'.ret = "Ok"

\* C22: add appends the task as the last element and leaves every stored
\* task as it was and in its place, so that the length grows by one; it
\* succeeds also when a task with the same id is stored already.
C22_AddAppends == [][C22_AddStep]_vars

C22_Witness ==
    /\ last.op = "add" /\ last.ret = "Ok" /\ last.id = 1
    /\ Len(Stored(file)) = 3
    /\ Stored(file)[1].id = 1 /\ Stored(file)[2].id = 2
    /\ Stored(file)[3].id = 1 /\ Stored(file)[3].created_at = 3

\* both processes are back from an invocation that saved and reported
\* success
BothSaved ==
    \A p \in Procs :
        /\ procs[p].pc = "idle" /\ procs[p].round \in Rounds
        /\ procs[p].ret = "Ok" /\ procs[p].saved

\* the tasks a process wrote in its last save
Written(p) == from_str(procs[p].data)

\* C23: when the loads and saves of two invocations interleave, both can
\* report success while the file holds what the last writer saved only:
\* after two successful saves made from the same loaded sequence a file
\* that is a JSON array holds the sequence one of the two wrote, computed
\* from what that one loaded, and after two adds it holds one of the two
\* new tasks and not the other.
C23_LastWriterWins ==
    (BothSaved /\ file.valid) =>
        /\ \E p \in Procs : Stored(file) = Written(p)
        /\ (/\ procs["p"].snap = procs["q"].snap
            /\ \A p \in Procs : procs[p].cmd.name = "add")
              => /\ Len(Stored(file)) = Len(procs["p"].snap) + 1
                 /\ \E p \in Procs :
                       /\ Stored(file) = Append(procs[p].snap, procs[p].task)
                       /\ \A q \in Procs \ {p} :
                             \A i \in 1..Len(Stored(file)) :
                                 Stored(file)[i] # procs[q].task

C23_Witness ==
    /\ BothSaved /\ file.valid
    /\ \A p \in Procs : procs[p].cmd.name = "add" /\ procs[p].round = 1
    /\ procs["p"].snap = <<>> /\ procs["q"].snap = <<>>
    /\ last.ret = "Ok" /\ last.exit = 0
    /\ added.known /\ Len(added.tasks) = 2
    /\ Stored(file) = <<procs["q"].task>>

\* what the operations do to the completed flags (a failed write leaves a
\* file that holds no task)
C24_CompletedStep ==
    LET old == Stored(file)
        new == Stored(file')
    IN  /\ (last'.op \in {"add", "list", "complete", "edit"}
            /\ file'.exists /\ file'.valid) =>
              /\ Len(new) >= Len(old)
              /\ \A i \in 1..Len(old) :
                    /\ new[i].id = old[i].id
                    /\ old[i].completed => new[i].completed
        /\ last'.op = "delete" => IsSubsequence(new, old)
        /\ (/\ last'.op = "complete"
            /\ HasId(old, last'.id)
            /\ old[FirstWithId(old, last'.id)].completed
            /\ last'.ret # "IoError")
              => last'.ret = "Ok" /\ last'.saved /\ file' = file

\* C24: no operation changes the completed flag of a stored task from true
\* to false, so that a completed task stays completed until a delete
\* removes it; completing a task that is completed already succeeds and
\* leaves the stored sequence as it was.
C24_CompletionMonotone == [][C24_CompletedStep]_vars

C24_Witness ==
    /\ last.op = "edit" /\ last.ret = "Ok" /\ last.id = 1 /\ last.some
    /\ Len(Stored(file)) = 2
    /\ Stored(file)[1].id = 1 /\ Stored(file)[1].completed
    /\ Stored(file)[1].updated_at > Stored(file)[1].created_at
    /\ Stored(file)[2].id = 2 /\ ~Stored(file)[2].completed

\* C25: in every state that invocations made one after the other reach from
\* an empty or absent file, the id of each stored task is at least 1 and at
\* least the position of the task in the stored sequence.
C25_IdAtLeastPosition ==
    \A i \in 1..Len(Stored(file)) :
        Stored(file)[i].id >= 1 /\ Stored(file)[i].id >= i

C25_Witness ==
    /\ last.op = "add" /\ last.ret = "Ok"
    /\ Len(Stored(file)) = 2
    /\ Stored(file)[1].id = 2 /\ Stored(file)[2].id = 2
    /\ 1 \in removed

\* the operations the command line can ask for
CliOps == {"none", "add", "list", "complete", "delete", "nuke", "invalid"}

\* C26: in every state the commands of the command line reach, every stored
\* task has a description that is not empty (nor blank): add is the only
\* command that writes one and it rejects blank ones, and no command
\* reaches the edit operation.
C26_DescriptionsNotEmpty ==
    /\ \A i \in 1..Len(Stored(file)) :
          /\ Stored(file)[i].description # <<>>
          /\ ~IsBlank(Stored(file)[i].description)
    /\ last.op \in CliOps
    /\ \A i \in 1..Len(Stored(file)) :
          Stored(file)[i].updated_at = Stored(file)[i].created_at

C26_Witness ==
    /\ last.op = "add" /\ last.ret = "InvalidInput" /\ last.text = <<>>
    /\ Len(Stored(file)) = 2
    /\ Stored(file)[1].description = <<"a">>
    /\ Stored(file)[2].description = <<" ", "b">>

\* the steps of a process that runs add: the id comes from the sequence
\* store.list loaded, the task is then appended to the sequence store.add
\* loads, whatever that one holds by then
C27_AddSteps ==
    \A p \in Procs :
        /\ (procs[p].pc = "run" /\ procs'[p].pc = "load") =>
              /\ procs'[p].task.id = Len(Stored(file)) + 1
              /\ file' = file
        /\ (procs[p].pc = "load" /\ procs'[p].pc = "save_open") =>
              /\ procs'[p].task = procs[p].task
              /\ from_str(procs'[p].data)
                    = Append(Stored(file), procs[p].task)

\* C27: the add command takes the id of the new task from one load and
\* appends the task through a second load and save of its own; when two
\* adds interleave, both tasks can be stored with the same id although no
\* task has been deleted.
C27_IdFromEarlierLoad == [][C27_AddSteps]_vars

C27_Witness ==
    /\ \A p \in Procs :
          /\ procs[p].pc = "idle" /\ procs[p].round = 1
          /\ procs[p].cmd.name = "add" /\ procs[p].ret = "Ok"
    /\ removed = {}
    /\ Stored(file) = <<procs["p"].task, procs["q"].task>>
    /\ procs["p"].task.id = 1 /\ procs["q"].task.id = 1

\* the steps of the file initialisation and the loads that meet them
C28_EnsureSteps ==
    \A p \in Procs :
        /\ (procs[p].pc = "exists" /\ procs'[p].pc = "create")
              => ~file.exists /\ file' = file
        /\ (procs[p].pc \in {"create", "init_open"} /\ procs'[p] # procs[p])
              => file' = ZeroLength
        /\ (procs[p].pc = "init_write" /\ procs'[p] # procs[p]
            /\ Stored(file) = <<>>)
              => file' = EmptyArray
        /\ (procs[p].pc \in {"run", "load"} /\ procs'[p] # procs[p]
            /\ file = ZeroLength)
              => /\ procs'[p].pc = "idle"
                 /\ procs'[p].ret = "SerdeError"
                 /\ last'.exit = 1

\* C28: the file initialisation is a check followed by a creation that
\* truncates and a write of []: interleaved with another invocation it can
\* wipe the tasks that one saved after the check, and a load of the other
\* invocation can meet the file of zero length and fail with the
\* serialization error.
C28_CheckThenCreate == [][C28_EnsureSteps]_vars

C28_Witness ==
    /\ \A p \in Procs : procs[p].pc = "idle"
    /\ procs["p"].round = 1 /\ procs["p"].cmd.name = "list"
    /\ procs["p"].ret = "Ok"
    /\ procs["q"].round = 2 /\ procs["q"].ret = "SerdeError"
    /\ added.known /\ Len(added.tasks) = 1 /\ removed = {}
    /\ file = EmptyArray

====
